---- MODULE Spec2Model ----
(***************************************************************************)
(* Coral Spectrum base mixins: the overlay stack, backdrop, open/close     *)
(* life cycle and focus return of BaseOverlay, and the global listener     *)
(* delegation of BaseComponent.                                            *)
(***************************************************************************)
EXTENDS Integers, Sequences, FiniteSets, TLC

\* ------------------------------------------------------------------------
\* Universe of the model
\* ------------------------------------------------------------------------

\* The overlay instances.
Overlays ==
  {"o1", "o2"}

\* Document order of the overlays; an overlay may be nested in an earlier one.
Rank ==
  [o \in Overlays |-> IF o = "o1" THEN 1 ELSE 2]

\* Focusable elements of the document that live outside every overlay.
Elements ==
  {"A", "B"}

\* Values document.activeElement takes: the body, an outside element, or
\* an element inside overlay o (written o).
FocusTargets ==
  {"body"} \cup Elements \cup Overlays

\* The places an overlay can be appended to: the document body, a container
\* that is itself not in the document, or another overlay.
Containers ==
  {"body", "detached"}

\* BaseOverlay.js:43
startZIndex ==
  10000

\* Bound on the number of z-index allocations above startZIndex.
MaxPush ==
  3

\* Bound on the animation frame callbacks waiting to run.
MaxFrames ==
  2

\* Bound on the transition-end callbacks waiting per overlay.
MaxTransitions ==
  1

VARIABLES
  open,                     \* o._open
  openAttr,                 \* o.hasAttribute('open')
  parentNode,               \* o.parentNode: "none", a container or an overlay
  silenced,                 \* o._silenced
  returnFocus,              \* o._returnFocus
  returnFocusToElement,     \* o._returnFocusToElement
  elementToFocusWhenHidden, \* o._elementToFocusWhenHidden
  requestedBackdrop,        \* o._requestedBackdrop
  showBackdropOnAttached,   \* o._showBackdropOnAttached
  overlayAnimationTime,     \* whether o._overlayAnimationTime is set
  debounceId,               \* the callback pending on o._debounceId
  transitionEndCbs,         \* callbacks handed to commons.transitionEnd(o, .)
  overlayStack,             \* the module's overlayStack
  backdropIsOpen,           \* backdropEl && backdropEl._isOpen
  animationFrames,          \* callbacks handed to requestAnimationFrame
  activeElement,            \* document.activeElement
  dispatched,               \* events dispatched by the last step, in order
  instances                 \* the overlay instances that were constructed

overlayVars ==
  <<open, openAttr, parentNode, silenced, returnFocus, returnFocusToElement,
    elementToFocusWhenHidden, requestedBackdrop, showBackdropOnAttached,
    overlayAnimationTime, debounceId, transitionEndCbs, overlayStack,
    backdropIsOpen, animationFrames, activeElement, dispatched, instances>>

\* The overlay state as one value, so that the calls a handler makes compose.
Cur ==
  [open |-> open, openAttr |-> openAttr, parentNode |-> parentNode,
   silenced |-> silenced, returnFocus |-> returnFocus,
   returnFocusToElement |-> returnFocusToElement,
   elementToFocusWhenHidden |-> elementToFocusWhenHidden,
   requestedBackdrop |-> requestedBackdrop,
   showBackdropOnAttached |-> showBackdropOnAttached,
   debounceId |-> debounceId, transitionEndCbs |-> transitionEndCbs,
   overlayStack |-> overlayStack, backdropIsOpen |-> backdropIsOpen,
   animationFrames |-> animationFrames, activeElement |-> activeElement,
   dispatched |-> dispatched]

\* A handler starts with no event dispatched yet.
Start ==
  [Cur EXCEPT !.dispatched = <<>>]

\* ------------------------------------------------------------------------
\* DOM tree
\* ------------------------------------------------------------------------

RECURSIVE IsConnected(_, _)
IsConnected(pn, o) ==
  IF pn[o] \in Overlays THEN IsConnected(pn, pn[o]) ELSE pn[o] = "body"

\* a.contains(x) for an overlay a and a focus target x
RECURSIVE Contains(_, _, _)
Contains(pn, a, x) ==
  /\ x \in Overlays
  /\ \/ x = a
     \/ pn[x] \in Overlays /\ Contains(pn, a, pn[x])

\* The overlays below a, in document order.
RECURSIVE InOrder(_)
InOrder(set) ==
  IF set = {} THEN <<>>
  ELSE LET m == CHOOSE x \in set : \A y \in set : Rank[x] <= Rank[y]
       IN <<m>> \o InOrder(set \ {m})

Descendants(pn, a) ==
  InOrder({x \in Overlays : x # a /\ Contains(pn, a, x)})

\* ------------------------------------------------------------------------
\* OverlayManager
\* ------------------------------------------------------------------------

\* 0 stands for the -1 of the source: sequences are 1-based.
IndexOf(stack, instance) ==
  IF \E i \in 1..Len(stack) : stack[i].instance = instance
  THEN CHOOSE i \in 1..Len(stack) :
         /\ stack[i].instance = instance
         /\ \A j \in 1..(i - 1) : stack[j].instance # instance
  ELSE 0

Pop(stack, instance) ==
  LET index == IndexOf(stack, instance)
  IN IF index = 0 THEN stack
     ELSE SubSeq(stack, 1, index - 1) \o SubSeq(stack, index + 1, Len(stack))

Top(stack) ==
  IF Len(stack) = 0 THEN [instance |-> "none", zIndex |-> 0, backdrop |-> FALSE]
  ELSE stack[Len(stack)]

GetHighestZIndexFlat(stack) ==
  startZIndex

GetHighestZIndex(stack) ==
  IF Len(stack) = 0 THEN startZIndex ELSE Top(stack).zIndex

Push(stack, instance) ==
  LET index == IndexOf(stack, instance)
      overlay == IF index = 0
                 THEN [instance |-> instance, zIndex |-> 0, backdrop |-> FALSE]
                 ELSE stack[index]
      rest == Pop(stack, instance)
      zIndex == GetHighestZIndex(rest) + 10
  IN Append(rest, [overlay EXCEPT !.zIndex = zIndex])

\* ------------------------------------------------------------------------
\* Backdrop
\* ------------------------------------------------------------------------

DoBackdropHide(S) ==
  [S EXCEPT !.backdropIsOpen = FALSE]

DoBackdropShow(S) ==
  [S EXCEPT !.backdropIsOpen = TRUE]

HideOrRepositionBackdropNever(S) ==
  S

HideOrRepositionBackdrop(S) ==
  IF ~S.backdropIsOpen THEN S
  ELSE IF \E i \in 1..Len(S.overlayStack) : S.overlayStack[i].backdrop
       THEN S
       ELSE DoBackdropHide(S)

PushOverlay(S, o) ==
  [S EXCEPT !.overlayStack = Push(@, o)]

PopOverlay(S, o) ==
  HideOrRepositionBackdrop([S EXCEPT !.overlayStack = Pop(@, o)])

ShowBackdropOf(S, o) ==
  LET index == IndexOf(S.overlayStack, o)
      S1 == IF index = 0 THEN S
            ELSE DoBackdropShow([S EXCEPT !.overlayStack[index].backdrop = TRUE])
      S2 == [S1 EXCEPT !.requestedBackdrop[o] = TRUE]
  IN IF S2.parentNode[o] = "none"
     THEN [S2 EXCEPT !.showBackdropOnAttached[o] = TRUE]
     ELSE S2

HideBackdropOf(S, o) ==
  LET index == IndexOf(S.overlayStack, o)
      S1 == IF index = 0 THEN S
            ELSE HideOrRepositionBackdrop(
                   [S EXCEPT !.overlayStack[index].backdrop = FALSE])
  IN [S1 EXCEPT !.requestedBackdrop[o] = FALSE]

\* ------------------------------------------------------------------------
\* BaseComponent: events, attribute reflection
\* ------------------------------------------------------------------------

\* The values handed to the open setter: the booleans ("true", "false"), the
\* value of a present attribute ("") and of a removed one ("null").
OpenValues ==
  {"true", "false", "", "null"}

\* transform.booleanAttr of coral-utils: everything but null, undefined and
\* the boolean false is true.
BooleanAttr(value) ==
  value \notin {"null", "undefined", "false"}

\* The closure of one run of the open setter: the _silenced value it
\* captured, and whether the run was made by set(..., silent = true).
ModeOf(S, o, via) ==
  IF via = "silentSet" THEN "silentSet"
  ELSE IF S.silenced[o] THEN "leftover"
  ELSE "loud"

\* trigger(eventName): a silenced component returns the event undispatched;
\* otherwise the event is dispatched and a listener may prevent it.
Trigger(S, o, type, prevent, mode) ==
  IF S.silenced[o]
  THEN [st |-> S, defaultPrevented |-> FALSE]
  ELSE [st |-> [S EXCEPT !.dispatched =
                  Append(@, [type |-> type, target |-> o, open |-> S.open[o],
                             prevented |-> prevent, mode |-> mode])],
        defaultPrevented |-> prevent]

\* _reflectAttribute for a boolean value; the attribute change it makes is
\* flagged by _reflectedAttribute and does not come back to the setter.
ReflectAttribute(S, o, value) ==
  IF value /\ ~S.openAttr[o] THEN [S EXCEPT !.openAttr[o] = TRUE]
  ELSE IF ~value /\ S.openAttr[o] THEN [S EXCEPT !.openAttr[o] = FALSE]
  ELSE S

\* ------------------------------------------------------------------------
\* Focus
\* ------------------------------------------------------------------------

\* element.focus(): an element outside the document cannot take focus.
Focus(S, target) ==
  IF target \in Elements \/ (target \in Overlays /\ IsConnected(S.parentNode, target))
  THEN [S EXCEPT !.activeElement = target]
  ELSE S

\* focusOnShow is at its default, 'on': the first focusable element of the
\* overlay, or the overlay itself, is focused.
HandleFocus(S, o) ==
  Focus(S, o)

HandleReturnFocus(S, o) ==
  LET el == S.elementToFocusWhenHidden[o]
  IN IF S.returnFocus[o] = "on" /\ el # "none"
     THEN IF ~Contains(S.parentNode, o, S.activeElement)
          THEN S
          ELSE [Focus(S, el) EXCEPT !.elementToFocusWhenHidden[o] = "none"]
     ELSE S

\* ------------------------------------------------------------------------
\* set open
\* ------------------------------------------------------------------------

CacheElementToFocus(S, o) ==
  IF S.returnFocus[o] = "on"
  THEN [S EXCEPT !.elementToFocusWhenHidden[o] =
          IF @ # "none" THEN @
          ELSE IF S.returnFocusToElement[o] # "none" THEN S.returnFocusToElement[o]
          ELSE IF S.activeElement = "body" THEN "none"
          ELSE S.activeElement]
  ELSE S

IsPreventedNever(before) ==
  FALSE

IsPrevented(before) ==
  before.defaultPrevented

SetOpen(S, o, value, prevent, via) ==
  LET mode == ModeOf(S, o, via)
      before == Trigger(S, o, IF value THEN "beforeopen" ELSE "beforeclose",
                        prevent, mode)
  IN IF IsPrevented(before) THEN before.st
     ELSE LET S1 == [before.st EXCEPT !.open[o] = value]
              S2 == ReflectAttribute(S1, o, value)
              S3 == IF S2.parentNode[o] # "none"
                    THEN IF value THEN CacheElementToFocus(PushOverlay(S2, o), o)
                         ELSE PopOverlay(S2, o)
                    ELSE S2
          IN [S3 EXCEPT !.animationFrames =
                Append(@, [instance |-> o, open |-> value, mode |-> mode])]

\* attributeChangedCallback('open', old, value) outside a reflection
AttributeChangedCallback(S, o, value, prevent) ==
  SetOpen(S, o, BooleanAttr(value), prevent, "attribute")

\* ------------------------------------------------------------------------
\* Completion of opening and closing
\* ------------------------------------------------------------------------

NoCallback ==
  [kind |-> "none", mode |-> "loud"]

Debounce(S, o, kind, mode) ==
  [S EXCEPT !.debounceId[o] = [kind |-> kind, mode |-> mode]]

OpenComplete(S, o, mode) ==
  IF S.open[o] THEN Debounce(S, o, "open", mode) ELSE S

CloseComplete(S, o, mode) ==
  IF ~S.open[o] THEN Debounce(HandleReturnFocus(S, o), o, "close", mode) ELSE S

\* commons.transitionEnd(o, cb): cb runs once, when the transition ends.
TransitionEndRegister(S, o, kind, mode) ==
  [S EXCEPT !.transitionEndCbs[o] = Append(@, [kind |-> kind, mode |-> mode])]

\* The callback the open setter hands to requestAnimationFrame.
AnimationFrameCallback(S, f) ==
  LET o == f.instance
      S1 == [S EXCEPT !.silenced[o] = (f.mode # "loud")]
      kind == IF f.open THEN "open" ELSE "close"
  IN IF overlayAnimationTime[o]
     THEN TransitionEndRegister(S1, o, kind, f.mode)
     ELSE IF f.open THEN OpenComplete(S1, o, f.mode)
          ELSE CloseComplete(S1, o, f.mode)

RECURSIVE CloseChildOverlays(_, _, _)
CloseChildOverlays(S, components, pv) ==
  IF components = <<>> THEN S
  ELSE LET c == Head(components)
           S1 == IF S.openAttr[c]
                 THEN AttributeChangedCallback(
                        [S EXCEPT !.openAttr[c] = FALSE], c, "null", pv[c])
                 ELSE S
       IN CloseChildOverlays(S1, Tail(components), pv)

\* The function _debounce runs after 10 ms.
DebounceCallback(S, o, cb, pv) ==
  LET S1 == IF cb.kind = "open" THEN HandleFocus(S, o)
            ELSE CloseChildOverlays(S, Descendants(S.parentNode, o), pv)
      S2 == Trigger(S1, o, cb.kind, FALSE, cb.mode).st
  IN [S2 EXCEPT !.silenced[o] = FALSE]

\* ------------------------------------------------------------------------
\* Life cycle callbacks of BaseOverlay
\* ------------------------------------------------------------------------

\* super.connectedCallback() is ComponentConnected below: an overlay has no
\* global listeners of its own, and nothing here reads _disconnected. After
\* it the callback reads hasAttribute through
\* a reference detached from the element (BaseOverlay.js:1043-1045); a DOM
\* that rejects the call ends the callback there (throws), one that accepts
\* it lets the callback go on.
ConnectedCallback(S, o, throws) ==
  IF throws THEN S
  ELSE IF S.open[o]
       THEN LET S1 == PushOverlay(S, o)
            IN IF S1.showBackdropOnAttached[o] THEN ShowBackdropOf(S1, o) ELSE S1
       ELSE S

DisconnectedCallback(S, o) ==
  IF S.open[o]
  THEN LET S1 == PopOverlay(S, o)
       IN IF S1.requestedBackdrop[o]
          THEN [S1 EXCEPT !.showBackdropOnAttached[o] = TRUE]
          ELSE S1
  ELSE S

RECURSIVE ConnectAll(_, _, _)
ConnectAll(S, nodes, throws) ==
  IF nodes = <<>> THEN S
  ELSE ConnectAll(ConnectedCallback(S, Head(nodes), throws), Tail(nodes), throws)

RECURSIVE DisconnectAll(_, _)
DisconnectAll(S, nodes) ==
  IF nodes = <<>> THEN S
  ELSE DisconnectAll(DisconnectedCallback(S, Head(nodes)), Tail(nodes))

\* ------------------------------------------------------------------------
\* BaseComponent: delegation of global listeners over the life cycle
\* ------------------------------------------------------------------------

Components ==
  {"c1", "c2"}

\* The kinds of entry an event map can hold: a global event, a global key
\* combination and a key combination on the element itself.
ListenerKinds ==
  {"global:click", "global:key:escape", "key:enter"}

VARIABLES
  globalEvents,       \* whether c._globalEvents holds a listener
  globalKeys,         \* whether c._globalKeys holds a listener
  ownKeys,            \* whether c._keys, the Keys instance of the element, exists
  disconnected,       \* c._disconnected: "undefined", "true" or "false"
  rendered,           \* c._rendered
  eventsListeners,    \* components whose global listener is on the events object
  keysListeners,      \* components whose global key listener is on the keys object
  ownKeysListeners,   \* components whose global key listener is on their own c._keys
  ownKeysInit,        \* components whose c._keys is initialised (init / destroy)
  lastCallback        \* the life cycle callback that ran last on c

componentVars ==
  <<globalEvents, globalKeys, ownKeys, disconnected, rendered, eventsListeners,
    keysListeners, ownKeysListeners, ownKeysInit, lastCallback>>

Registry ==
  [eventsListeners |-> eventsListeners, keysListeners |-> keysListeners,
   ownKeysListeners |-> ownKeysListeners, ownKeysInit |-> ownKeysInit,
   threw |-> FALSE]

\* delegateGlobalEvents: `keys` is the element's own c._keys here, not the
\* keys object of coral-utils; keys.on on a missing c._keys throws.
DelegateGlobalEvents(R, c, hasEvents, hasKeys, hasOwn) ==
  LET R1 == IF hasEvents
            THEN [R EXCEPT !.eventsListeners = @ \cup {c}]
            ELSE R
  IN IF hasKeys /\ ~hasOwn THEN [R1 EXCEPT !.threw = TRUE]
     ELSE LET R2 == IF hasKeys
                    THEN [R1 EXCEPT !.ownKeysListeners = @ \cup {c}]
                    ELSE R1
          IN IF hasOwn THEN [R2 EXCEPT !.ownKeysInit = @ \cup {c}] ELSE R2

UndelegateGlobalEvents(R, c, hasEvents, hasKeys, hasOwn) ==
  LET R1 == IF hasEvents
            THEN [R EXCEPT !.eventsListeners = @ \ {c}]
            ELSE R
  IN IF hasKeys /\ ~hasOwn THEN [R1 EXCEPT !.threw = TRUE]
     ELSE LET R2 == IF hasKeys
                    THEN [R1 EXCEPT !.ownKeysListeners = @ \ {c}]
                    ELSE R1
          IN IF hasOwn THEN [R2 EXCEPT !.ownKeysInit = @ \ {c}] ELSE R2

ApplyRegistry(R) ==
  /\ eventsListeners' = R.eventsListeners
  /\ keysListeners' = R.keysListeners
  /\ ownKeysListeners' = R.ownKeysListeners
  /\ ownKeysInit' = R.ownKeysInit

\* BaseComponent.connectedCallback
ComponentConnected(c) ==
  LET R == IF disconnected[c] = "true"
           THEN DelegateGlobalEvents(Registry, c, globalEvents[c], globalKeys[c], ownKeys[c])
           ELSE Registry
  IN /\ ApplyRegistry(R)
     /\ disconnected' = IF R.threw THEN disconnected
                        ELSE [disconnected EXCEPT ![c] = "false"]
     /\ rendered' = IF R.threw THEN rendered ELSE [rendered EXCEPT ![c] = TRUE]
     /\ lastCallback' = [lastCallback EXCEPT ![c] = "connected"]
     /\ UNCHANGED <<globalEvents, globalKeys, ownKeys>>

\* BaseComponent.disconnectedCallback
ComponentDisconnected(c) ==
  LET R == UndelegateGlobalEvents(Registry, c, globalEvents[c], globalKeys[c], ownKeys[c])
  IN /\ ApplyRegistry(R)
     /\ disconnected' = [disconnected EXCEPT ![c] = "true"]
     /\ lastCallback' = [lastCallback EXCEPT ![c] = "disconnected"]
     /\ UNCHANGED <<globalEvents, globalKeys, ownKeys, rendered>>

\* _delegateEvents(eventMap) in the constructor: delegateEvents stores the
\* global listeners and creates c._keys for a key listener of the element,
\* then delegateGlobalEvents registers the global ones.
RECURSIVE DelegateEvents(_, _, _)
DelegateEvents(R, cs, eventMap) ==
  IF cs = {} THEN R
  ELSE LET c == CHOOSE x \in cs : TRUE
       IN DelegateEvents(
            DelegateGlobalEvents(R, c, "global:click" \in eventMap[c],
                                 "global:key:escape" \in eventMap[c],
                                 "key:enter" \in eventMap[c]),
            cs \ {c}, eventMap)

NoRegistry ==
  [eventsListeners |-> {}, keysListeners |-> {}, ownKeysListeners |-> {},
   ownKeysInit |-> {}, threw |-> FALSE]

\* The components whose constructor ran to its end, each with its event map.
InitComponents(made) ==
  \E eventMap \in [Components -> SUBSET ListenerKinds] :
    LET R == DelegateEvents(NoRegistry, made, eventMap)
    IN /\ \A c \in Components \ made : eventMap[c] = {}
       /\ ~R.threw
       /\ globalEvents = [c \in Components |-> "global:click" \in eventMap[c]]
       /\ globalKeys = [c \in Components |-> "global:key:escape" \in eventMap[c]]
       /\ ownKeys = [c \in Components |-> "key:enter" \in eventMap[c]]
       /\ disconnected = [c \in Components |-> "undefined"]
       /\ rendered = [c \in Components |-> FALSE]
       /\ eventsListeners = R.eventsListeners
       /\ keysListeners = R.keysListeners
       /\ ownKeysListeners = R.ownKeysListeners
       /\ ownKeysInit = R.ownKeysInit
       /\ lastCallback = [c \in Components |-> "none"]

\* ------------------------------------------------------------------------
\* The other components: one record of fields for each
\* ------------------------------------------------------------------------

VARIABLES
  enumerated,   \* an overlay's _trapFocus, _returnFocus, _scrollOnFocus
  playground,   \* a Playground
  button,       \* a button made with BaseButton
  quickItem,    \* a decorated QuickActionsItem
  zone,         \* a component with a content zone
  reflection    \* a component with reflected properties

widgetVars ==
  <<enumerated, playground, button, quickItem, zone, reflection>>

\* A component that was not constructed.
NotMade ==
  [made |-> FALSE]

NoEnumerated ==
  enumerated = NotMade

NoPlayground ==
  playground = NotMade

NoButton ==
  button = NotMade

NoQuickItem ==
  quickItem = NotMade

NoZone ==
  zone = NotMade

NoReflection ==
  reflection = NotMade

NoWidgets ==
  /\ NoEnumerated
  /\ NoPlayground
  /\ NoButton
  /\ NoQuickItem
  /\ NoZone
  /\ NoReflection

\* ------------------------------------------------------------------------
\* Steps of the overlay machine
\* ------------------------------------------------------------------------

Bounded(S) ==
  /\ Len(S.animationFrames) <= MaxFrames
  /\ \A o \in Overlays : Len(S.transitionEndCbs[o]) <= MaxTransitions
  /\ GetHighestZIndex(S.overlayStack) <= startZIndex + 10 * MaxPush

Apply(S) ==
  /\ Bounded(S)
  /\ open' = S.open
  /\ openAttr' = S.openAttr
  /\ parentNode' = S.parentNode
  /\ silenced' = S.silenced
  /\ returnFocus' = S.returnFocus
  /\ returnFocusToElement' = S.returnFocusToElement
  /\ elementToFocusWhenHidden' = S.elementToFocusWhenHidden
  /\ requestedBackdrop' = S.requestedBackdrop
  /\ showBackdropOnAttached' = S.showBackdropOnAttached
  /\ debounceId' = S.debounceId
  /\ transitionEndCbs' = S.transitionEndCbs
  /\ overlayStack' = S.overlayStack
  /\ backdropIsOpen' = S.backdropIsOpen
  /\ animationFrames' = S.animationFrames
  /\ activeElement' = S.activeElement
  /\ dispatched' = S.dispatched
  /\ UNCHANGED <<overlayAnimationTime, instances>>
  /\ UNCHANGED componentVars
  /\ UNCHANGED widgetVars

\* o.open = value, also show() and hide()
SetOpenProperty(o, value, prevent) ==
  Apply(SetOpen(Start, o, BooleanAttr(value), prevent, "property"))

\* o.set('open', value, silent)
SetOpenCall(o, value, silent, prevent) ==
  LET S1 == [Start EXCEPT !.silenced[o] = silent]
      S2 == SetOpen(S1, o, BooleanAttr(value), prevent,
                    IF silent THEN "silentSet" ELSE "set")
  IN Apply([S2 EXCEPT !.silenced[o] = FALSE])

\* o.set('returnFocus', value, silent)
SetReturnFocusCall(o, value, silent) ==
  LET S1 == [Start EXCEPT !.silenced[o] = silent]
      S2 == [S1 EXCEPT !.returnFocus[o] = value]
  IN Apply([S2 EXCEPT !.silenced[o] = FALSE])

\* o.setAttribute('open', '')
SetAttributeOpen(o, prevent) ==
  Apply(AttributeChangedCallback([Start EXCEPT !.openAttr[o] = TRUE], o, "", prevent))

\* o.removeAttribute('open'): no callback when the attribute is absent
RemoveAttributeOpen(o, prevent) ==
  /\ openAttr[o]
  /\ Apply(AttributeChangedCallback([Start EXCEPT !.openAttr[o] = FALSE], o, "null", prevent))

\* container.appendChild(o) for an overlay that has no parent
AppendChild(o, container, throws) ==
  /\ parentNode[o] = "none"
  /\ container \in Containers \/ (container \in Overlays /\ Rank[container] < Rank[o])
  /\ LET S1 == [Start EXCEPT !.parentNode[o] = container]
     IN IF IsConnected(S1.parentNode, o)
        THEN Apply(ConnectAll(S1, <<o>> \o Descendants(S1.parentNode, o), throws))
        ELSE Apply(S1)

\* o.remove()
RemoveChild(o) ==
  /\ parentNode[o] # "none"
  /\ LET wasConnected == IsConnected(parentNode, o)
         S1 == [Start EXCEPT !.parentNode[o] = "none",
                             !.activeElement =
                               IF wasConnected /\ Contains(parentNode, o, @)
                               THEN "body" ELSE @]
     IN IF wasConnected
        THEN Apply(DisconnectAll(S1, <<o>> \o Descendants(S1.parentNode, o)))
        ELSE Apply(S1)

ShowBackdrop(o) ==
  Apply(ShowBackdropOf(Start, o))

HideBackdrop(o) ==
  Apply(HideBackdropOf(Start, o))

ReturnFocusTo(o, element) ==
  LET S1 == IF returnFocus[o] = "off"
            THEN [Start EXCEPT !.returnFocus[o] = "on"]
            ELSE Start
  IN Apply([S1 EXCEPT !.returnFocusToElement[o] = element])

\* The user moves the focus.
UserFocus(target) ==
  /\ target # activeElement
  /\ target \in Overlays => IsConnected(parentNode, target) /\ open[target]
  /\ Apply([Start EXCEPT !.activeElement = target])

\* The next animation frame callback runs.
AnimationFrame ==
  /\ animationFrames # <<>>
  /\ Apply(AnimationFrameCallback(
             [Start EXCEPT !.animationFrames = Tail(@)], Head(animationFrames)))

\* The transition of o ends: the oldest waiting callback runs.
TransitionEnd(o) ==
  /\ transitionEndCbs[o] # <<>>
  /\ LET cb == Head(transitionEndCbs[o])
         S1 == [Start EXCEPT !.transitionEndCbs[o] = Tail(@)]
     IN Apply(IF cb.kind = "open" THEN OpenComplete(S1, o, cb.mode)
              ELSE CloseComplete(S1, o, cb.mode))

\* The 10 ms timer of _debounce fires.
DebounceTimer(o, pv) ==
  /\ debounceId[o] # NoCallback
  /\ Apply(DebounceCallback([Start EXCEPT !.debounceId[o] = NoCallback],
                            o, debounceId[o], pv))

\* The state after construction of the overlays in the set made.
InitOverlays(made, animated) ==
  /\ instances = made
  /\ open = [o \in Overlays |-> FALSE]
  /\ openAttr = [o \in Overlays |-> FALSE]
  /\ parentNode = [o \in Overlays |-> "none"]
  /\ silenced = [o \in Overlays |-> FALSE]
  /\ returnFocus = [o \in Overlays |-> "off"]
  /\ returnFocusToElement = [o \in Overlays |-> "none"]
  /\ elementToFocusWhenHidden = [o \in Overlays |-> "none"]
  /\ requestedBackdrop = [o \in Overlays |-> FALSE]
  /\ showBackdropOnAttached = [o \in Overlays |-> FALSE]
  /\ overlayAnimationTime \in [Overlays -> animated]
  /\ debounceId = [o \in Overlays |-> NoCallback]
  /\ transitionEndCbs = [o \in Overlays |-> <<>>]
  /\ overlayStack = <<>>
  /\ backdropIsOpen = FALSE
  /\ animationFrames = <<>>
  /\ activeElement = "body"
  /\ dispatched = <<>>

vars ==
  <<overlayVars, componentVars, widgetVars>>

\* --- The stack and the backdrop of two overlays --------------------------
InitStack ==
  InitOverlays(Overlays, {FALSE}) /\ InitComponents({}) /\ NoWidgets

\* No callback of an earlier set is waiting.
Quiet ==
  /\ animationFrames = <<>>
  /\ \A o \in Overlays : debounceId[o] = NoCallback /\ transitionEndCbs[o] = <<>>

\* Calls are made once the callbacks of the earlier set have run.
NextStack ==
  \/ /\ Quiet
     /\ \/ \E o \in instances, value \in {"true", "false"}, prevent \in BOOLEAN :
             SetOpenProperty(o, value, prevent)
        \/ \E o \in instances, container \in Containers, throws \in BOOLEAN :
             AppendChild(o, container, throws)
        \/ \E o \in instances : RemoveChild(o)
        \/ \E o \in instances : ShowBackdrop(o)
        \/ \E o \in instances : HideBackdrop(o)
  \/ AnimationFrame
  \/ \E o \in instances, pv \in [Overlays -> BOOLEAN] : DebounceTimer(o, pv)

SpecStack ==
  InitStack /\ [][NextStack]_vars

\* --- One overlay: property, attribute, attachment, backdrop --------------
InitReflect ==
  InitOverlays({"o1"}, BOOLEAN) /\ InitComponents({}) /\ NoWidgets

NextReflect ==
  \/ \E o \in instances, value \in {"true", "false"}, prevent \in BOOLEAN :
       SetOpenProperty(o, value, prevent)
  \/ \E o \in instances, prevent \in BOOLEAN : SetAttributeOpen(o, prevent)
  \/ \E o \in instances, prevent \in BOOLEAN : RemoveAttributeOpen(o, prevent)
  \/ \E o \in instances, container \in Containers, throws \in BOOLEAN :
       AppendChild(o, container, throws)
  \/ \E o \in instances : RemoveChild(o)
  \/ \E o \in instances : ShowBackdrop(o)
  \/ \E o \in instances : HideBackdrop(o)
  \/ AnimationFrame
  \/ \E o \in instances : TransitionEnd(o)
  \/ \E o \in instances, pv \in [Overlays -> BOOLEAN] : DebounceTimer(o, pv)

SpecReflect ==
  InitReflect /\ [][NextReflect]_vars

\* --- One overlay: events of silent and loud sets -------------------------
InitEvents ==
  InitOverlays({"o1"}, BOOLEAN) /\ InitComponents({}) /\ NoWidgets

NextEvents ==
  \/ \E o \in instances, value \in {"true", "false"}, prevent \in BOOLEAN :
       SetOpenProperty(o, value, prevent)
  \/ \E o \in instances, value \in {"true", "false"}, silent, prevent \in BOOLEAN :
       SetOpenCall(o, value, silent, prevent)
  \/ \E o \in instances, throws \in BOOLEAN : AppendChild(o, "body", throws)
  \/ AnimationFrame
  \/ \E o \in instances : TransitionEnd(o)
  \/ \E o \in instances, pv \in [Overlays -> BOOLEAN] : DebounceTimer(o, pv)

SpecEvents ==
  InitEvents /\ [][NextEvents]_vars

\* --- One overlay: focus return -------------------------------------------
InitFocus ==
  InitOverlays({"o1"}, BOOLEAN) /\ InitComponents({}) /\ NoWidgets

NextFocus ==
  \/ \E o \in instances, value \in {"true", "false"}, prevent \in BOOLEAN :
       SetOpenProperty(o, value, prevent)
  \/ \E o \in instances, value \in {"on", "off"} : SetReturnFocusCall(o, value, FALSE)
  \/ \E o \in instances, throws \in BOOLEAN : AppendChild(o, "body", throws)
  \/ \E o \in instances : RemoveChild(o)
  \/ \E o \in instances, element \in Elements : ReturnFocusTo(o, element)
  \/ \E target \in FocusTargets : UserFocus(target)
  \/ AnimationFrame
  \/ \E o \in instances : TransitionEnd(o)
  \/ \E o \in instances, pv \in [Overlays -> BOOLEAN] : DebounceTimer(o, pv)

SpecFocus ==
  InitFocus /\ [][NextFocus]_vars

\* --- Two overlays, one nested in the other -------------------------------
InitNested ==
  InitOverlays(Overlays, {FALSE}) /\ InitComponents({}) /\ NoWidgets

NextNested ==
  \/ \E o \in instances, value \in {"true", "false"}, prevent \in BOOLEAN :
       SetOpenProperty(o, value, prevent)
  \/ \E o \in instances, container \in {"body"} \cup Overlays, throws \in BOOLEAN :
       AppendChild(o, container, throws)
  \/ \E o \in instances : RemoveChild(o)
  \/ AnimationFrame
  \/ \E o \in instances, pv \in [Overlays -> BOOLEAN] : DebounceTimer(o, pv)

SpecNested ==
  InitNested /\ [][NextNested]_vars

\* --- Two components: life cycle callbacks ---------------------------------
InitLifecycle ==
  InitOverlays({}, {FALSE}) /\ InitComponents(Components) /\ NoWidgets

NextLifecycle ==
  \/ \E c \in Components : ComponentConnected(c) /\ UNCHANGED <<overlayVars, widgetVars>>
  \/ \E c \in Components : ComponentDisconnected(c) /\ UNCHANGED <<overlayVars, widgetVars>>

SpecLifecycle ==
  InitLifecycle /\ [][NextLifecycle]_vars

\* ------------------------------------------------------------------------
\* BaseOverlay: the enumerated properties trapFocus, returnFocus and
\* scrollOnFocus
\* ------------------------------------------------------------------------

\* Longest string handed to a setter.
MaxChars == 3

Chars ==
  {"o", "n", "f", "O", "F"}

\* JavaScript values: strings made of Chars, and null, undefined, a number
\* and a boolean.
Str(chars) ==
  [type |-> "string", chars |-> chars]

Undefined ==
  [type |-> "undefined", chars |-> <<>>]

Strings ==
  {Str(chars) : chars \in UNION {[1..n -> Chars] : n \in 0..MaxChars}}

Null ==
  [type |-> "null", chars |-> <<>>]

One ==
  [type |-> "number", chars |-> <<"1">>]

True ==
  [type |-> "boolean", chars |-> <<"true">>]

False ==
  [type |-> "boolean", chars |-> <<"false">>]

Values ==
  Strings \cup {Undefined, Null, One, True}

\* String.prototype.toLowerCase on one character; the names of the
\* Playground screens are written as a first letter and the rest of the
\* word, those of the button variants as one word.
LowerChar(c) ==
  CASE c = "O" -> "o"
    [] c = "F" -> "f"
    [] c = "N" -> "n"
    [] c = "CTA" -> "cta"
    [] c = "ACTION" -> "action"
    [] c = "DEFAULT" -> "default"
    [] c = "V" -> "v"
    [] c = "H" -> "h"
    [] c = "ULLSCREEN" -> "ullscreen"
    [] c = "ORIZONTAL" -> "orizontal"
    [] c = "ERTICAL" -> "ertical"
    [] OTHER -> c

ToLowerCaseNone(value) ==
  value

\* transform.toLowerCase of coral-utils: strings are lower-cased, every
\* other value is handed back as it is.
ToLowerCase(value) ==
  IF value.type = "string"
  THEN Str([i \in 1..Len(value.chars) |-> LowerChar(value.chars[i])])
  ELSE value

\* The enumerations of ./enums: each of trapFocus, returnFocus and
\* scrollOnFocus has ON: 'on' and OFF: 'off'.
ON ==
  Str(<<"o", "n">>)

OFF ==
  Str(<<"o", "f", "f">>)

OnOff ==
  {ON, OFF}

\* validate.enumeration(enumeration)(value) of coral-utils: the value is one
\* of the values of the enumeration.
Enumeration(enumeration, value) ==
  value \in enumeration

\* value || other
Or(value, other) ==
  IF value = Undefined THEN other ELSE value

\* validate.valueMustChange(oldValue, newValue) of coral-utils.
ValueMustChange(oldValue, newValue) ==
  oldValue # newValue

\* _updateProperty(handle, value, callback), for the fields of one record
UpdateProperty(E, handle, value) ==
  IF ValueMustChange(E[handle], value) THEN [E EXCEPT ![handle] = value] ELSE E

GetTrapFocus(E) ==
  Or(E["_trapFocus"], OFF)

SetTrapFocus(E, value) ==
  LET lower == ToLowerCase(value)
      valid == IF Enumeration(OnOff, lower) THEN lower ELSE OFF
  IN UpdateProperty(E, "_trapFocus", valid)

GetReturnFocus(E) ==
  Or(E["_returnFocus"], OFF)

SetReturnFocus(E, value) ==
  LET lower == ToLowerCase(value)
  IN [E EXCEPT !["_returnFocus"] = IF Enumeration(OnOff, lower) THEN lower ELSE OFF]

GetScrollOnFocus(E) ==
  Or(E["_scrollOnFocus"], ON)

SetScrollOnFocus(E, value) ==
  LET lower == ToLowerCase(value)
  IN [E EXCEPT !["_scrollOnFocus"] = IF Enumeration(OnOff, lower) THEN lower ELSE ON]

EnumeratedProperties ==
  {"trapFocus", "returnFocus", "scrollOnFocus"}

\* overlay[property] = value, for the value drawn at the start or a member
\* of the enumeration; lastSet remembers the assignment.
SetEnumerated(property, value) ==
  /\ value \in {enumerated.input} \cup OnOff
  /\ enumerated' =
       [(CASE property = "trapFocus" -> SetTrapFocus(enumerated, value)
           [] property = "returnFocus" -> SetReturnFocus(enumerated, value)
           [] property = "scrollOnFocus" -> SetScrollOnFocus(enumerated, value))
        EXCEPT !.lastSet = [property |-> property, value |-> value]]
  /\ UNCHANGED <<overlayVars, componentVars>>
  /\ UNCHANGED <<playground, button, quickItem, zone, reflection>>

SetTrapFocusProperty(value) ==
  SetEnumerated("trapFocus", value)

SetReturnFocusProperty(value) ==
  SetEnumerated("returnFocus", value)

SetScrollOnFocusProperty(value) ==
  SetEnumerated("scrollOnFocus", value)

InitEnumerated ==
  \E input \in Values :
    enumerated = [made |-> TRUE, input |-> input,
                  _trapFocus |-> Undefined, _returnFocus |-> Undefined,
                  _scrollOnFocus |-> Undefined,
                  lastSet |-> [property |-> "none", value |-> Undefined]]

InitEnum ==
  /\ InitOverlays({}, {FALSE}) /\ InitComponents({})
  /\ InitEnumerated
  /\ NoPlayground /\ NoButton /\ NoQuickItem /\ NoZone /\ NoReflection

NextEnum ==
  \/ \E value \in Values : SetTrapFocusProperty(value)
  \/ \E value \in Values : SetReturnFocusProperty(value)
  \/ \E value \in Values : SetScrollOnFocusProperty(value)

SpecEnum ==
  InitEnum /\ [][NextEnum]_vars

\* ------------------------------------------------------------------------
\* Playground
\* ------------------------------------------------------------------------

\* Longest code in the editor, longest value handed to the screen setter
\* (in letters and word ends), and most editor changes between two runs.
MaxCode == 2
MaxScreenChars == 2
MaxBurst == 3

FULLSCREEN ==
  Str(<<"f", "ullscreen">>)

HORIZONTAL ==
  Str(<<"h", "orizontal">>)

VERTICAL ==
  Str(<<"v", "ertical">>)

SCREEN_ENUM ==
  {FULLSCREEN, HORIZONTAL, VERTICAL}

\* `${CLASS_NAME}--${screen}`
ScreenClass(screen) ==
  [base |-> "_coral-Playground", modifier |-> screen.chars]

SCREEN_CLASSES ==
  {ScreenClass(screen) : screen \in SCREEN_ENUM}

CLASS_NAME ==
  [base |-> "_coral-Playground", modifier |-> <<>>]

ScreenChars ==
  {"v", "V", "ertical", "ERTICAL", "h", "orizontal", "f", "ullscreen"}

ScreenValues ==
  {Str(chars) : chars \in UNION {[1..n -> ScreenChars] : n \in 0..MaxScreenChars}}
    \cup {Undefined, Null, One, True}

CodeChars ==
  {"a", "b"}

Codes ==
  {Str(chars) : chars \in UNION {[1..n -> CodeChars] : n \in 0..MaxCode}}

CODERUN ==
  "coral-playground:coderun"

SETTINGSCHANGE ==
  "coral-playground:settingschange"

\* if (value)
Truthy(value) ==
  CASE value.type = "string" -> value.chars # <<>>
    [] value.type = "number" -> TRUE
    [] value.type = "boolean" -> value = True
    [] value.type = "element" -> TRUE
    [] OTHER -> FALSE

\* transform.string of coral-utils: null and undefined give '', a string is
\* kept, any other value is converted with String().
TransformString(value) ==
  IF value.type \in {"null", "undefined"} THEN Str(<<>>)
  ELSE Str(value.chars)

\* _debounceTrigger(event): the timer that was waiting is cleared, whatever
\* its event, and a new one is started. _timeout is the event of the timer.
DebounceTrigger(P, event) ==
  [P EXCEPT !["_timeout"] = event]

EditorChangedIdle(P) ==
  P

\* The 'change' handler of the editor
EditorChanged(P) ==
  IF Truthy(P["_livereload"])
  THEN DebounceTrigger(P, CODERUN)
  ELSE [P EXCEPT !.runVisibility = "visible"]

\* set code: CodeMirror's setValue replaces the document and emits 'change'.
SetCode(P, value) ==
  EditorChanged([P EXCEPT !.code = IF Truthy(value) THEN value ELSE Str(<<>>)])

SetLivereload(P, value) ==
  LET P1 == IF Truthy(value)
            THEN DebounceTrigger(
                   [P EXCEPT !["_livereload"] = True, !.livereloadChecked = TRUE,
                             !.runVisibility = "hidden"], CODERUN)
            ELSE [P EXCEPT !["_livereload"] = False, !.livereloadChecked = FALSE,
                           !.runVisibility = "visible"]
  IN DebounceTrigger(P1, SETTINGSCHANGE)

\* _reflectAttribute('screen', value): the attribute is written when it
\* differs; _reflectedAttribute keeps attributeChangedCallback from setting
\* the property again.
ReflectScreen(P, value) ==
  IF P.screenAttr # value THEN [P EXCEPT !.screenAttr = value] ELSE P

ScreenDefaultNone(lower) ==
  lower

ScreenDefault(lower) ==
  IF Enumeration(SCREEN_ENUM, lower) THEN lower ELSE VERTICAL

SetScreen(P, value) ==
  LET lower == ToLowerCase(TransformString(value))
      P1 == [P EXCEPT !["_screen"] = ScreenDefault(lower)]
      P2 == ReflectScreen(P1, P1["_screen"])
      P3 == [P2 EXCEPT !.classes = (@ \ SCREEN_CLASSES) \cup {ScreenClass(P2["_screen"])}]
  IN DebounceTrigger(P3, SETTINGSCHANGE)

\* connectedCallback; the callback handed to
\* commons.addCallbackInRequestAnimationFrameQueue runs in a later frame.
PlaygroundConnected(P) ==
  LET P1 == [P EXCEPT !.classes = @ \cup {CLASS_NAME}, !.connected = TRUE]
      P2 == SetScreen(P1, P1.config.screen)
      P3 == SetCode(P2, P2.config.code)
      P4 == SetLivereload(P3, P3.config.livereload)
  IN [P4 EXCEPT !.frames = @ + 1]

PlaygroundFrameCallback(P) ==
  IF Truthy(P["_livereload"]) THEN DebounceTrigger(P, CODERUN) ELSE P

\* The configuration {} of Playground.read
EmptyConfig ==
  [keys |-> {}, screen |-> Undefined, code |-> Undefined, livereload |-> Undefined]

\* A call made on the playground: it is remembered in lastOp, and events
\* collects what is triggered from then on. changes counts the editor changes
\* made since a timer last ran, covered those the last timer stood for;
\* query and read are what the call share() and the read of it returned;
\* input is a value drawn at the start for the calls to come.
Called(P, name) ==
  [P EXCEPT !.lastOp = name, !.events = <<>>, !.query = <<>>, !.read = EmptyConfig]

OtherWidgetsUnchanged ==
  /\ UNCHANGED <<overlayVars, componentVars>>
  /\ UNCHANGED <<enumerated, button, quickItem, zone, reflection>>

\* The user edits the code.
EditorChange(code) ==
  /\ playground.changes < MaxBurst
  /\ code # playground.code
  /\ playground' =
       LET P == EditorChanged([playground EXCEPT !.code = code])
       IN Called([P EXCEPT !.changes = @ + 1],
                 IF Truthy(playground["_livereload"]) THEN "changeLive" ELSE "change")
  /\ OtherWidgetsUnchanged

\* playground.livereload = value
SetLivereloadProperty(value) ==
  /\ playground' = Called(SetLivereload(playground, value),
                          IF Truthy(value) THEN "livereloadOn" ELSE "livereloadOff")
  /\ OtherWidgetsUnchanged

\* playground.screen = value
SetScreenProperty(value) ==
  /\ playground' = Called(SetScreen(playground, value), "screen")
  /\ OtherWidgetsUnchanged

\* _onRunClick
RunClick ==
  /\ playground' = Called(DebounceTrigger(playground, CODERUN), "run")
  /\ OtherWidgetsUnchanged

\* The playground is attached to the document.
PlaygroundAttach ==
  /\ ~playground.connected
  /\ playground' =
       Called(PlaygroundConnected(playground),
              IF Truthy(playground.config.livereload) THEN "attachLive" ELSE "attach")
  /\ OtherWidgetsUnchanged

PlaygroundAnimationFrame ==
  /\ playground.frames > 0
  /\ playground' = PlaygroundFrameCallback([playground EXCEPT !.frames = @ - 1])
  /\ OtherWidgetsUnchanged

\* DEBOUNCE_TIME has passed since the timer was started.
PlaygroundTimer ==
  /\ playground["_timeout"] \in {CODERUN, SETTINGSCHANGE}
  /\ playground' = [playground EXCEPT !["_timeout"] = "null",
                                      !.events = Append(@, playground["_timeout"]),
                                      !.covered = playground.changes,
                                      !.changes = 0]
  /\ OtherWidgetsUnchanged

NoConfig ==
  [screen |-> Undefined, code |-> Undefined, livereload |-> Undefined]

\* The state after new Playground(config)
MadePlayground(config) ==
  [made |-> TRUE, connected |-> FALSE, config |-> config,
   _livereload |-> Undefined, livereloadChecked |-> FALSE,
   _screen |-> Undefined, screenAttr |-> Null, classes |-> {},
   code |-> Str(<<>>), _timeout |-> "undefined", runVisibility |-> "",
   frames |-> 0, lastOp |-> "none", events |-> <<>>, changes |-> 0,
   covered |-> 0, input |-> Undefined,
   query |-> <<>>, read |-> EmptyConfig]

InitPlayground ==
  /\ InitOverlays({}, {FALSE}) /\ InitComponents({})
  /\ \E screen \in {Undefined, HORIZONTAL},
        code \in {Undefined, Str(<<"a">>)},
        livereload \in {Undefined, Str(<<"true">>)} :
       playground = MadePlayground([screen |-> screen, code |-> code,
                                    livereload |-> livereload])
  /\ NoEnumerated /\ NoButton /\ NoQuickItem /\ NoZone /\ NoReflection

NextPlayground ==
  \/ \E code \in {Str(<<>>), Str(<<"a">>), Str(<<"b">>)} : EditorChange(code)
  \/ \E value \in {True, False} : SetLivereloadProperty(value)
  \/ \E value \in {HORIZONTAL, Str(<<"F", "ullscreen">>)} : SetScreenProperty(value)
  \/ RunClick
  \/ PlaygroundAttach
  \/ PlaygroundAnimationFrame
  \/ PlaygroundTimer

SpecPlayground ==
  InitPlayground /\ [][NextPlayground]_vars

\* The timer and the animation frame callback run once they are due: the
\* user leaves DEBOUNCE_TIME between two of their operations again and again.
SpecPlaygroundLive ==
  /\ SpecPlayground
  /\ WF_vars(PlaygroundTimer)
  /\ WF_vars(PlaygroundAnimationFrame)

\* --- Playground: share and read -------------------------------------------

\* A query is a sequence of characters; a run of characters that holds none
\* of '?', '=' and '&' is written as one word where its letters do not matter.
PROPERTIES ==
  <<"livereload", "screen", "code">>

\* window.btoa(rawdeflate(bytes)): one base64 word for each character of the
\* code, padded with '=' to a multiple of three; rawinflate is taken to
\* invert rawdeflate.
Base64Of(c) ==
  IF c = "a" THEN "YQ" ELSE "Yg"

Compress(code) ==
  LET n == Len(code.chars)
      padding == (3 - (n % 3)) % 3
  IN [i \in 1..(n + padding) |-> IF i <= n THEN Base64Of(code.chars[i]) ELSE "="]

\* rawinflate(window.atob(base64)): atob drops the padding.
Uncompress(base64) ==
  LET words == SelectSeq(base64.chars, LAMBDA c : c # "=")
  IN Str([i \in 1..Len(words) |-> IF words[i] = "YQ" THEN "a" ELSE "b"])

\* `${value}` of a property value
Text(value) ==
  value.chars

SeparatorNone ==
  <<>>

Separator ==
  <<"&">>

\* this[property] of share()
PropertyOf(P, property) ==
  CASE property = "livereload" -> P["_livereload"]
    [] property = "screen" -> P["_screen"]
    [] property = "code" -> P.code

RECURSIVE ShareFrom(_, _, _)
ShareFrom(P, i, query) ==
  IF i > Len(PROPERTIES) THEN query
  ELSE LET property == PROPERTIES[i]
           value == PropertyOf(P, property)
       IN ShareFrom(P, i + 1,
            IF Truthy(value)
            THEN query \o <<property, "=">>
                       \o (IF property = "code" THEN Compress(P.code) ELSE Text(value))
                       \o Separator
            ELSE query)

Share(P) ==
  ShareFrom(P, 1, <<"?">>)

\* The last index of the run of characters outside stop that starts at i
\* (i - 1 when the run is empty).
RECURSIVE RunEnd(_, _, _)
RunEnd(query, i, stop) ==
  IF i > Len(query) \/ query[i] \in stop THEN i - 1
  ELSE RunEnd(query, i + 1, stop)

\* decodeURI: the escape of '=' stands for the others; a missing value is
\* decoded to the text 'undefined'.
DecodeURI(chars) ==
  [i \in 1..Len(chars) |-> IF chars[i] = "%3D" THEN "=" ELSE chars[i]]

\* query.replace(/([^?=&]+)(=([^&]*))?/g, ...): params maps each key to the
\* decoded value of its last occurrence.
RECURSIVE ParseFrom(_, _, _)
ParseFrom(query, i, params) ==
  IF i > Len(query) THEN params
  ELSE IF query[i] \in {"?", "=", "&"} THEN ParseFrom(query, i + 1, params)
  ELSE LET j == RunEnd(query, i, {"?", "=", "&"})
           key == SubSeq(query, i, j)
           hasValue == j + 1 <= Len(query) /\ query[j + 1] = "="
           k == IF hasValue THEN RunEnd(query, j + 2, {"&"}) ELSE j
           value == IF hasValue THEN Str(DecodeURI(SubSeq(query, j + 2, k)))
                    ELSE Str(<<"undefined">>)
       IN ParseFrom(query, k + 1, (key :> value) @@ params)

ParseQueryString(query) ==
  ParseFrom(query, 1, <<>>)

\* params[property]
Param(params, property) ==
  IF <<property>> \in DOMAIN params THEN params[<<property>>] ELSE Undefined

Read(query) ==
  LET params == ParseQueryString(query)
  IN IF DOMAIN params = {} THEN EmptyConfig
     ELSE [keys |-> {"livereload", "screen", "code"},
           livereload |-> Param(params, "livereload"),
           screen |-> Param(params, "screen"),
           code |-> IF Truthy(Param(params, "code"))
                    THEN Uncompress(Param(params, "code"))
                    ELSE Param(params, "code")]

\* Playground.read(playground.share())
PlaygroundShare ==
  /\ playground' = [Called(playground, "share") EXCEPT
                      !.query = Share(playground),
                      !.read = Read(Share(playground))]
  /\ OtherWidgetsUnchanged

InitShare ==
  /\ InitOverlays({}, {FALSE}) /\ InitComponents({})
  /\ playground = MadePlayground(NoConfig)
  /\ NoEnumerated /\ NoButton /\ NoQuickItem /\ NoZone /\ NoReflection

NextShare ==
  \/ \E code \in Codes : EditorChange(code)
  \/ \E value \in {True, False} : SetLivereloadProperty(value)
  \/ \E value \in SCREEN_ENUM : SetScreenProperty(value)
  \/ PlaygroundTimer
  \/ PlaygroundShare

SpecShare ==
  InitShare /\ [][NextShare]_vars

\* --- Playground: the screen property ---------------------------------------

\* attributeChangedCallback('screen', oldValue, value) of an attribute
\* change made from outside: _reflectedAttribute is false, the property is
\* set.
ScreenAttributeChanged(P, value) ==
  SetScreen([P EXCEPT !.screenAttr = value], value)

\* playground.setAttribute('screen', value)
SetScreenAttribute(value) ==
  /\ value.type = "string"
  /\ playground' = Called(ScreenAttributeChanged(playground, value), "screenAttribute")
  /\ OtherWidgetsUnchanged

\* playground.removeAttribute('screen')
RemoveScreenAttribute ==
  /\ playground.screenAttr # Null
  /\ playground' = Called(ScreenAttributeChanged(playground, Null), "screenAttribute")
  /\ OtherWidgetsUnchanged

InitScreen ==
  /\ InitOverlays({}, {FALSE}) /\ InitComponents({})
  /\ \E screen \in {Undefined, HORIZONTAL, Str(<<"V", "ERTICAL">>)},
        input \in ScreenValues :
       playground = [MadePlayground([NoConfig EXCEPT !.screen = screen])
                       EXCEPT !.input = input]
  /\ NoEnumerated /\ NoButton /\ NoQuickItem /\ NoZone /\ NoReflection

\* The values set are the value drawn at the start and the three screens.
NextScreen ==
  \/ \E value \in {playground.input} \cup SCREEN_ENUM : SetScreenProperty(value)
  \/ \E value \in {playground.input} \cup SCREEN_ENUM : SetScreenAttribute(value)
  \/ RemoveScreenAttribute
  \/ PlaygroundAttach
  \/ PlaygroundAnimationFrame
  \/ PlaygroundTimer

SpecScreen ==
  InitScreen /\ [][NextScreen]_vars

\* ------------------------------------------------------------------------
\* BaseButton: size and variant
\* ------------------------------------------------------------------------

\* ButtonSizeEnum
MEDIUM ==
  Str(<<"M">>)

LARGE ==
  Str(<<"L">>)

ButtonSize ==
  {MEDIUM, LARGE}

\* ButtonVariantEnum; a variant name is written as one word.
ButtonVariant ==
  {Str(<<name>>) : name \in {"cta", "primary", "secondary", "quiet", "minimal",
                             "warning", "action", "quietaction", "quietsecondary",
                             "quietwarning", "overbackground", "default", "_custom"}}

DEFAULT ==
  Str(<<"default">>)

CLASSNAME ==
  "_coral-Button"

ACTION_CLASSNAME ==
  "_coral-ActionButton"

ALL_VARIANT_CLASSES ==
  <<"_coral-Button--cta", "_coral-Button--primary", "_coral-Button--secondary",
    "_coral-Button--warning", "_coral-Button--quiet", "_coral-ActionButton--quiet",
    "_coral-Button--overBackground">>

\* VARIANT_MAP, with ALL_VARIANT_CLASSES[i] of the source at index i + 1
VARIANT_MAP ==
  [name \in {"cta", "primary", "secondary", "warning", "quiet", "minimal",
             "default", "action", "quietaction", "quietsecondary",
             "quietwarning", "overbackground"} |->
     CASE name = "cta" -> {CLASSNAME, ALL_VARIANT_CLASSES[1]}
       [] name = "primary" -> {CLASSNAME, ALL_VARIANT_CLASSES[1]}
       [] name = "secondary" -> {CLASSNAME, ALL_VARIANT_CLASSES[3]}
       [] name = "warning" -> {CLASSNAME, ALL_VARIANT_CLASSES[4]}
       [] name = "quiet" -> {CLASSNAME, ALL_VARIANT_CLASSES[2], ALL_VARIANT_CLASSES[5]}
       [] name = "minimal" -> {CLASSNAME, ALL_VARIANT_CLASSES[3], ALL_VARIANT_CLASSES[5]}
       [] name = "default" -> {CLASSNAME, ALL_VARIANT_CLASSES[2]}
       [] name = "action" -> {ACTION_CLASSNAME}
       [] name = "quietaction" -> {ACTION_CLASSNAME, ALL_VARIANT_CLASSES[6]}
       [] name = "quietsecondary" -> {CLASSNAME, ALL_VARIANT_CLASSES[3], ALL_VARIANT_CLASSES[5]}
       [] name = "quietwarning" -> {CLASSNAME, ALL_VARIANT_CLASSES[4], ALL_VARIANT_CLASSES[5]}
       [] name = "overbackground" -> {CLASSNAME, ALL_VARIANT_CLASSES[7]}]

Range(seq) ==
  {seq[i] : i \in 1..Len(seq)}

\* String.prototype.toUpperCase on one character
UpperChar(c) ==
  CASE c = "m" -> "M"
    [] c = "l" -> "L"
    [] c = "s" -> "S"
    [] OTHER -> c

\* transform.toUpperCase of coral-utils: strings are upper-cased, every
\* other value is handed back as it is.
ToUpperCase(value) ==
  IF value.type = "string"
  THEN Str([i \in 1..Len(value.chars) |-> UpperChar(value.chars[i])])
  ELSE value

\* _reflectAttribute(attributeName, value) for a string value
ReflectString(B, attribute, value) ==
  IF B[attribute] # value THEN [B EXCEPT ![attribute] = value] ELSE B

GetSize(B) ==
  Or(B["_size"], MEDIUM)

SetSize(B, value) ==
  LET upper == ToUpperCase(value)
      valid == IF Enumeration(ButtonSize, upper) THEN upper ELSE MEDIUM
  IN IF ValueMustChange(B["_size"], valid)
     THEN ReflectString([B EXCEPT !["_size"] = valid], "sizeAttr", valid)
     ELSE B

GetVariant(B) ==
  Or(B["_variant"], DEFAULT)

\* The callback of the variant setter; it ends with self._updateLabel(),
\* which reads self before its declaration when it is given no label
\* (BaseButton.js:510-512) and throws.
VariantChanged(B, value) ==
  LET B1 == ReflectString(B, "variantAttr", value)
      removed == (B1.classes \ {CLASSNAME, ACTION_CLASSNAME}) \ Range(ALL_VARIANT_CLASSES)
      classes == IF value = Str(<<"_custom">>) THEN removed \ {CLASSNAME}
                 ELSE IF value \in {Str(<<"action">>), Str(<<"quietaction">>)}
                      THEN (removed \cup VARIANT_MAP[value.chars[1]]) \ {CLASSNAME}
                      ELSE removed \cup VARIANT_MAP[value.chars[1]]
  IN [B1 EXCEPT !.classes = classes, !.threw = TRUE]

SetVariant(B, value) ==
  LET lower == ToLowerCase(value)
      valid == IF Enumeration(ButtonVariant, lower) THEN lower ELSE DEFAULT
  IN IF ValueMustChange(B["_variant"], valid)
     THEN VariantChanged([B EXCEPT !["_variant"] = valid], valid)
     ELSE B

\* render(): the default variant and size; an exception of the variant
\* setter ends it.
ButtonRendered(B) ==
  LET B1 == IF ~Truthy(B["_variant"]) THEN SetVariant(B, DEFAULT) ELSE B
  IN IF B1.threw THEN B1
     ELSE [(IF ~Truthy(B1["_size"]) THEN SetSize(B1, MEDIUM) ELSE B1)
             EXCEPT !.rendered = TRUE]

\* A call made on the button
ButtonCalled(B, name) ==
  [B EXCEPT !.lastOp = name, !.threw = FALSE]

OnlyButtonChanges ==
  /\ UNCHANGED <<overlayVars, componentVars>>
  /\ UNCHANGED <<enumerated, playground, quickItem, zone, reflection>>

SizeValues ==
  {Str(<<"M">>), Str(<<"L">>), Str(<<"m">>), Str(<<"l">>), Str(<<"s">>),
   Str(<<>>), Undefined, Null, One}

VariantValues ==
  ButtonVariant \cup {Str(<<"CTA">>), Str(<<"ACTION">>), Str(<<"DEFAULT">>),
                      Str(<<"bogus">>), Str(<<>>), Undefined, Null}

\* button.size = value
SetSizeProperty(value) ==
  /\ button' = SetSize(ButtonCalled(button, "size"), value)
  /\ OnlyButtonChanges

\* button.setAttribute('size', value): attributeChangedCallback sets the
\* property.
SetSizeAttribute(value) ==
  /\ value.type = "string"
  /\ button' = SetSize([ButtonCalled(button, "size") EXCEPT !.sizeAttr = value], value)
  /\ OnlyButtonChanges

\* button.variant = value
SetVariantProperty(value) ==
  /\ button' = SetVariant(ButtonCalled(button, "variant"), value)
  /\ OnlyButtonChanges

\* button.setAttribute('variant', value)
SetVariantAttribute(value) ==
  /\ value.type = "string"
  /\ button' = SetVariant([ButtonCalled(button, "variant") EXCEPT !.variantAttr = value],
                          value)
  /\ OnlyButtonChanges

\* connectedCallback of BaseComponent: render() on the first attachment
ButtonAttach ==
  /\ ~button.rendered
  /\ button' = ButtonRendered(ButtonCalled(button, "attach"))
  /\ OnlyButtonChanges

InitButton ==
  /\ InitOverlays({}, {FALSE}) /\ InitComponents({})
  /\ button = [made |-> TRUE, _size |-> Undefined, sizeAttr |-> Null,
               _variant |-> Undefined, variantAttr |-> Null, classes |-> {},
               rendered |-> FALSE, threw |-> FALSE, lastOp |-> "none"]
  /\ NoEnumerated /\ NoPlayground /\ NoQuickItem /\ NoZone /\ NoReflection

NextButton ==
  \/ \E value \in SizeValues : SetSizeProperty(value)
  \/ \E value \in SizeValues : SetSizeAttribute(value)
  \/ \E value \in VariantValues : SetVariantProperty(value)
  \/ \E value \in VariantValues : SetVariantAttribute(value)
  \/ ButtonAttach

SpecButton ==
  InitButton /\ [][NextButton]_vars

\* ------------------------------------------------------------------------
\* QuickActionsItem, decorated with Decorator
\* ------------------------------------------------------------------------

\* Most life cycle callbacks waiting to be delivered.
MaxReactions == 4

\* Messenger.connect() and Messenger.disconnect() of coral-messenger
MessengerConnect(Q) ==
  [Q EXCEPT !.messengerConnected = TRUE]

MessengerDisconnectNone(Q) ==
  Q

MessengerDisconnect(Q) ==
  [Q EXCEPT !.messengerConnected = FALSE]

\* _updateCallback(connected) of the item: it starts with
\* super._updateCallback(connected), and no class above it (BaseComponent,
\* HTMLElement) has that method, so the call throws before the messenger is
\* reached.
ItemUpdateCallback(Q, connected) ==
  [Q EXCEPT !.threw = TRUE]

\* Decorator._updateCallback
UpdateCallback(Q, connected) ==
  ItemUpdateCallback(Q, connected)

\* connectedCallback and disconnectedCallback of BaseComponent, for an
\* element without global listeners
BaseConnected(Q) ==
  [Q EXCEPT !["_disconnected"] = "false", !.rendered = TRUE]

BaseDisconnected(Q) ==
  [Q EXCEPT !["_disconnected"] = "true"]

\* connectedCallback and disconnectedCallback of the item
ItemConnected(Q) ==
  BaseConnected(MessengerConnect(Q))

ItemDisconnected(Q) ==
  MessengerDisconnect(BaseDisconnected(Q))

\* connectedCallback and disconnectedCallback of Decorator, the ones the
\* browser calls; _ignoreConnectedCallback is never set.
DecoratorConnected(Q) ==
  IF ~Q.isConnected \/ Q["_disconnected"] = "false"
  THEN UpdateCallback(Q, TRUE)
  ELSE ItemConnected(Q)

DecoratorDisconnected(Q) ==
  IF Q.isConnected \/ Q["_disconnected"] = "true"
  THEN UpdateCallback(Q, FALSE)
  ELSE ItemDisconnected(Q)

OnlyQuickItemChanges ==
  /\ UNCHANGED <<overlayVars, componentVars>>
  /\ UNCHANGED <<enumerated, playground, button, zone, reflection>>

\* Where the item can be: nowhere, in a fragment outside the document, or
\* in one of two places of the document.
Parents == {"none", "fragment", "body", "quickactions"}

InDocument(parent) ==
  parent \in {"body", "quickactions"}

\* The callbacks the browser owes the item when its parent changes.
Reactions(from, to) ==
  (IF InDocument(from) THEN <<"disconnected">> ELSE <<>>)
    \o (IF InDocument(to) THEN <<"connected">> ELSE <<>>)

\* A DOM operation on the item; reactions holds the callbacks the browser
\* has still to deliver.
Operated(Q, name, to) ==
  [Q EXCEPT !.lastOp = name, !.threw = FALSE, !.parent = to,
            !.isConnected = InDocument(to),
            !.reactions = @ \o Reactions(Q.parent, to)]

\* parent.appendChild(item): an insertion, or a move when the item is in
\* the document before and after.
ItemAppend(to) ==
  /\ to # "none" /\ to # quickItem.parent
  /\ Len(quickItem.reactions) + Len(Reactions(quickItem.parent, to)) <= MaxReactions
  /\ quickItem' = Operated(quickItem,
                           IF InDocument(quickItem.parent) /\ InDocument(to)
                           THEN "move" ELSE "insert", to)
  /\ OnlyQuickItemChanges

\* item.remove()
ItemRemove ==
  /\ quickItem.parent # "none"
  /\ Len(quickItem.reactions) + Len(Reactions(quickItem.parent, "none")) <= MaxReactions
  /\ quickItem' = Operated(quickItem, "remove", "none")
  /\ OnlyQuickItemChanges

\* The browser delivers the next callback.
ItemReaction ==
  /\ quickItem.reactions # <<>>
  /\ quickItem' =
       LET Q == [quickItem EXCEPT !.reactions = Tail(@)]
       IN IF Head(quickItem.reactions) = "connected"
          THEN DecoratorConnected(Q)
          ELSE DecoratorDisconnected(Q)
  /\ OnlyQuickItemChanges

InitQuickItem ==
  /\ InitOverlays({}, {FALSE}) /\ InitComponents({})
  /\ quickItem = [made |-> TRUE, parent |-> "none",
                  isConnected |-> FALSE, _disconnected |-> "undefined",
                  messengerConnected |-> FALSE, rendered |-> FALSE,
                  reactions |-> <<>>, threw |-> FALSE, lastOp |-> "none"]
  /\ NoEnumerated /\ NoPlayground /\ NoButton /\ NoZone /\ NoReflection

NextQuickItem ==
  \/ \E to \in Parents : ItemAppend(to)
  \/ ItemRemove
  \/ ItemReaction

SpecQuickItem ==
  InitQuickItem /\ [][NextQuickItem]_vars

\* ------------------------------------------------------------------------
\* Content zones: _setContentZone, and the label of a button
\* ------------------------------------------------------------------------

\* The elements a script can hand to a content zone.
Nodes == {"label1", "label2", "span"}

Element(n) ==
  [type |-> "element", chars |-> <<n>>]

ZoneElements == {Element(n) : n \in Nodes}

\* The icon of the button, a child that is no content zone.
IconElement == Element("icon")

\* value.tagName
TagName(value) ==
  IF value = Element("span") THEN "SPAN" ELSE "CORAL-BUTTON-LABEL"

\* tagName.toLowerCase()
TagToLowerCase(tag) ==
  CASE tag = "SPAN" -> "span"
    [] tag = "CORAL-BUTTON-LABEL" -> "coral-button-label"
    [] OTHER -> tag

\* Object.keys(this._contentZones)[0] of a button
ContentZoneTagName == "coral-button-label"

\* What a script can assign to a content zone property.
ZoneValues ==
  ZoneElements \cup {Null, Undefined, False, Str(<<>>), Str(<<"o">>), One, True}

InstanceOfAny(value) ==
  TRUE

\* value instanceof HTMLElement
InstanceOfHTMLElement(value) ==
  value.type = "element"

\* node.parentNode is set: the node is a child of the component or of some
\* other node.
HasParent(Z, value) ==
  /\ value.type = "element"
  /\ \/ \E i \in 1..Len(Z.children) : Z.children[i] = value
     \/ value \in Z.elsewhere

Without(children, value) ==
  SelectSeq(children, LAMBDA child : child # value)

\* node.parentNode.removeChild(node)
ZoneRemoveChild(Z, value) ==
  [Z EXCEPT !.children = Without(@, value), !.elsewhere = @ \ {value}]

\* this.appendChild(value): the value leaves the place it was in.
ZoneAppendChild(Z, value) ==
  [Z EXCEPT !.children = Append(Without(@, value), value),
            !.elsewhere = @ \ {value}]

\* this.insertBefore(value, this.firstChild)
InsertFirst(Z, value) ==
  [Z EXCEPT !.children = <<value>> \o Without(@, value),
            !.elsewhere = @ \ {value}]

\* old.parentNode.replaceChild(value, old)
ZoneReplaceChild(Z, value, old) ==
  IF value = old THEN Z
  ELSE IF old \in Z.elsewhere
  THEN [Z EXCEPT !.children = Without(@, value),
                 !.elsewhere = (@ \ {old}) \cup {value}]
  ELSE LET kept == Without(Z.children, value)
       IN [Z EXCEPT !.children = [i \in 1..Len(kept) |->
                                    IF kept[i] = old THEN value ELSE kept[i]],
                    !.elsewhere = @ \ {value}]

\* The insert function of the label of a button: _updateLabel(label) gives
\* the label its class, then the label goes after or before the other
\* children (an empty label has no text to clear).
InsertLabel(Z, label) ==
  LET styled == [Z EXCEPT !.styled = @ \cup {label}]
  IN IF Z.iconPosition = "left" THEN ZoneAppendChild(styled, label)
     ELSE InsertFirst(styled, label)

\* additionalSetter.call(self, value)
AdditionalSetter(Z, value) ==
  [Z EXCEPT !.setterCalls = Append(@, value)]

SetContentZone(Z, value, options) ==
  LET oldNode == Z.handle
      placed ==
        IF Truthy(value)
        THEN LET flagged == [Z EXCEPT !.contentZoned = @ \cup {value}]
             IN IF options.insert
                THEN InsertLabel(IF Truthy(oldNode) /\ HasParent(flagged, oldNode)
                                 THEN ZoneRemoveChild(flagged, oldNode)
                                 ELSE flagged, value)
                ELSE IF Truthy(oldNode) /\ HasParent(flagged, oldNode)
                THEN ZoneReplaceChild(flagged, value, oldNode)
                ELSE ZoneAppendChild(flagged, value)
        ELSE IF Truthy(oldNode) /\ HasParent(Z, oldNode)
        THEN ZoneRemoveChild(Z, oldNode)
        ELSE Z
      assigned == [placed EXCEPT !.handle = value]
  IN IF Truthy(value) /\ ~InstanceOfHTMLElement(value)
     THEN [Z EXCEPT !.threw = TRUE]
     ELSE IF /\ Truthy(value)
             /\ options.tagName # "undefined"
             /\ TagToLowerCase(TagName(value)) # options.tagName
     THEN [Z EXCEPT !.threw = TRUE]
     ELSE IF options.set THEN AdditionalSetter(assigned, value)
     ELSE assigned

\* set label of a button
SetLabel(Z, value) ==
  SetContentZone(Z, value,
                 [tagName |-> ContentZoneTagName, insert |-> TRUE, set |-> FALSE])

OnlyZoneChanges ==
  /\ UNCHANGED <<overlayVars, componentVars>>
  /\ UNCHANGED <<enumerated, playground, button, quickItem, reflection>>

ZoneCalled(Z, name, value) ==
  [Z EXCEPT !.lastOp = name, !.lastValue = value, !.threw = FALSE]

\* component._setContentZone(property, value, options), with the options
\* the component passes
SetZoneProperty(value) ==
  /\ zone' = SetContentZone(ZoneCalled(zone, "set", value), value, zone.options)
  /\ OnlyZoneChanges

\* button.label = value
SetLabelProperty(value) ==
  /\ zone.options = [tagName |-> ContentZoneTagName, insert |-> TRUE, set |-> FALSE]
  /\ zone' = SetLabel(ZoneCalled(zone, "set", value), value)
  /\ OnlyZoneChanges

\* A script puts an element into another node, or takes it out of the
\* document.
NodeMoved(n, away) ==
  /\ zone' = LET out == ZoneRemoveChild(ZoneCalled(zone, "moved", Element(n)), Element(n))
             IN IF away THEN [out EXCEPT !.elsewhere = @ \cup {Element(n)}]
                ELSE out
  /\ zone' # zone
  /\ OnlyZoneChanges

ZoneOptions ==
  [tagName : {"undefined", ContentZoneTagName}, insert : BOOLEAN, set : BOOLEAN]

\* A component whose zone holds its first element, as after the
\* constructor and render.
InitZone ==
  /\ InitOverlays({}, {FALSE}) /\ InitComponents({})
  /\ \E options \in ZoneOptions, iconPosition \in {"left", "right"},
        attached \in BOOLEAN :
       zone = [made |-> TRUE, options |-> options, iconPosition |-> iconPosition,
               handle |-> Element("label1"),
               children |-> IF attached THEN <<IconElement, Element("label1")>>
                            ELSE <<IconElement>>,
               elsewhere |-> {}, contentZoned |-> {}, styled |-> {},
               setterCalls |-> <<>>, threw |-> FALSE,
               lastOp |-> "none", lastValue |-> Undefined]
  /\ NoEnumerated /\ NoPlayground /\ NoButton /\ NoQuickItem /\ NoReflection

MaxSetterCalls == 2

NextZone ==
  \/ \E value \in ZoneValues :
       /\ Len(zone.setterCalls) < MaxSetterCalls
       /\ SetZoneProperty(value)
  \/ \E value \in ZoneValues :
       /\ Len(zone.setterCalls) < MaxSetterCalls
       /\ SetLabelProperty(value)
  \/ \E n \in Nodes, away \in BOOLEAN : NodeMoved(n, away)

SpecZone ==
  InitZone /\ [][NextZone]_vars

\* ------------------------------------------------------------------------
\* Reflection of properties: _reflectAttribute and attributeChangedCallback,
\* for the selected and value properties of a button
\* ------------------------------------------------------------------------

\* String(value)
StringOf(value) ==
  CASE value.type = "null" -> Str(<<"null">>)
    [] value.type = "undefined" -> Str(<<"undefined">>)
    [] OTHER -> Str(value.chars)

\* transform.booleanAttr of coral-utils, for a value of any type
BooleanAttrOf(value) ==
  IF value.type \in {"null", "undefined"} \/ value = False THEN False ELSE True

ReflectedNever(R) ==
  FALSE

\* this._reflectedAttribute
Reflected(R) ==
  R["_reflectedAttribute"] = "true"

RECURSIVE SetReflected(_, _, _)
RECURSIVE ReflectAttributeValue(_, _, _)

\* attributeChangedCallback(name, oldValue, value); both attributes map to
\* the property of their own name.
ReflectionAttributeChanged(R, name, value) ==
  IF ~Reflected(R) THEN SetReflected(R, name, value) ELSE R

\* setAttribute(name, value) and removeAttribute(name) with the callback
\* the browser runs before they return; an attribute that is not there is
\* null.
SetAttribute(R, name, value) ==
  ReflectionAttributeChanged([R EXCEPT !.attributes[name] = value], name, value)

RemoveAttribute(R, name) ==
  ReflectionAttributeChanged([R EXCEPT !.attributes[name] = Null], name, Null)

ReflectAttributeValue(R, name, value) ==
  LET flagged == [R EXCEPT !["_reflectedAttribute"] = "true"]
      unflag(X) == [X EXCEPT !["_reflectedAttribute"] = "false"]
      done ==
        IF value.type = "boolean"
        THEN IF value = True /\ R.attributes[name] = Null
             THEN unflag(SetAttribute(flagged, name, Str(<<>>)))
             ELSE IF value = False /\ R.attributes[name] # Null
             THEN unflag(RemoveAttribute(flagged, name))
             ELSE R
        ELSE IF R.attributes[name] # StringOf(value)
        THEN unflag(SetAttribute(flagged, name, StringOf(value)))
        ELSE R
  IN [done EXCEPT !.reflections =
        Append(@, [attribute |-> name, value |-> value,
                   before |-> R.attributes[name],
                   after |-> done.attributes[name],
                   flag |-> done["_reflectedAttribute"],
                   setters |-> done.setterCalls - R.setterCalls])]

\* set selected and set value of BaseButton
SetReflected(R, name, value) ==
  LET called == [R EXCEPT !.setterCalls = @ + 1]
  IN IF name = "selected"
     THEN LET selected == BooleanAttrOf(value)
          IN IF ValueMustChange(called["_selected"], selected)
             THEN LET R1 == ReflectAttributeValue([called EXCEPT !["_selected"] = selected],
                                             "selected", selected)
                  IN [R1 EXCEPT !.classes = IF selected = True
                                            THEN @ \cup {"is-selected"}
                                            ELSE @ \ {"is-selected"},
                                !.events = Append(@, "coral-button:_selectedchanged")]
             ELSE called
     ELSE [ReflectAttributeValue(called, "value", value)
             EXCEPT !.events = Append(@, "coral-button:_valuechanged")]

ReflectedAttributes == {"selected", "value"}

\* What a script assigns to a property, and writes into an attribute.
ReflectedValues ==
  {Null, Undefined, True, False, One, Str(<<>>), Str(<<"o">>)}

AttributeValues ==
  {Str(<<>>), Str(<<"o">>), Str(<<"false">>)}

OnlyReflectionChanges ==
  /\ UNCHANGED <<overlayVars, componentVars>>
  /\ UNCHANGED <<enumerated, playground, button, quickItem, zone>>

ReflectionCalled(R, name) ==
  [R EXCEPT !.lastOp = name, !.setterCalls = 0, !.reflections = <<>>,
            !.events = <<>>]

\* button.selected = value, button.value = value
SetReflectedProperty(name, value) ==
  /\ reflection' = SetReflected(ReflectionCalled(reflection, "property"), name, value)
  /\ OnlyReflectionChanges

\* button.setAttribute(name, value) by a script
SetAttributeOutside(name, value) ==
  /\ reflection' = SetAttribute(ReflectionCalled(reflection, "attribute"), name, value)
  /\ OnlyReflectionChanges

\* button.removeAttribute(name) by a script, for an attribute that is there
RemoveAttributeOutside(name) ==
  /\ reflection.attributes[name] # Null
  /\ reflection' = RemoveAttribute(ReflectionCalled(reflection, "attribute"), name)
  /\ OnlyReflectionChanges

InitReflection ==
  /\ InitOverlays({}, {FALSE}) /\ InitComponents({})
  /\ reflection = [made |-> TRUE,
                   attributes |-> [name \in ReflectedAttributes |-> Null],
                   _selected |-> Undefined, _reflectedAttribute |-> "undefined",
                   classes |-> {}, events |-> <<>>, setterCalls |-> 0,
                   reflections |-> <<>>, lastOp |-> "none"]
  /\ NoEnumerated /\ NoPlayground /\ NoButton /\ NoQuickItem /\ NoZone

NextReflection ==
  \/ \E name \in ReflectedAttributes, value \in ReflectedValues :
       SetReflectedProperty(name, value)
  \/ \E name \in ReflectedAttributes, value \in AttributeValues :
       SetAttributeOutside(name, value)
  \/ \E name \in ReflectedAttributes : RemoveAttributeOutside(name)

SpecReflection ==
  InitReflection /\ [][NextReflection]_vars

\* ------------------------------------------------------------------------
\* Properties
\* ------------------------------------------------------------------------

\* C1: every instance held in the overlay stack has open = true: the stack
\* lists only overlays that are currently displayed.
StackHoldsOnlyOpenOverlays ==
  \A i \in 1..Len(overlayStack) : open[overlayStack[i].instance]

\* The highest z-index among the stacked overlays other than o, or the
\* starting z-index when there is none.
HighestOther(stack, o) ==
  LET others == {i \in 1..Len(stack) : stack[i].instance # o}
  IN IF others = {} THEN startZIndex
     ELSE LET m == CHOOSE i \in others :
                     \A j \in others : stack[j].zIndex <= stack[i].zIndex
          IN stack[m].zIndex

\* C2: when open is set to true on an overlay that has a parent node and
\* beforeopen is not prevented, the overlay becomes the top of the stack, its
\* z-index is the highest z-index of the other stacked overlays plus 10
\* (10010 when there is no other), and it is strictly greater than the
\* z-index of every other stacked overlay.
OpenedOverlayGoesOnTop ==
  [][\A o \in Overlays :
       (parentNode[o] # "none" /\ SetOpenProperty(o, "true", FALSE)) =>
         LET top == Top(overlayStack')
         IN /\ top.instance = o
            /\ top.zIndex = HighestOther(overlayStack, o) + 10
            /\ (\A i \in 1..Len(overlayStack) : overlayStack[i].instance = o)
                 => top.zIndex = 10010
            /\ \A i \in 1..(Len(overlayStack') - 1) :
                 overlayStack'[i].zIndex < top.zIndex]_vars

\* An overlay was opened again over another stacked overlay and took a
\* z-index above it.
ReopenedOverOther ==
  /\ Len(overlayStack) = 2
  /\ overlayStack[1].zIndex = 10020
  /\ overlayStack[2].zIndex = 10030
  /\ Len(dispatched) = 1
  /\ dispatched[1].type = "beforeopen"
  /\ dispatched[1].target = overlayStack[2].instance
  /\ ~dispatched[1].prevented

\* C3: a set whose beforeopen or beforeclose event is prevented leaves the
\* open property, the overlay stack and the backdrop as they were and
\* schedules nothing that would trigger coral-overlay:open or :close.
PreventedSetChangesNothing ==
  [][\A o \in Overlays, value \in {"true", "false"} :
       (~silenced[o] /\ (\/ SetOpenProperty(o, value, TRUE)
                         \/ SetAttributeOpen(o, TRUE)
                         \/ RemoveAttributeOpen(o, TRUE))) =>
         /\ open' = open
         /\ overlayStack' = overlayStack
         /\ backdropIsOpen' = backdropIsOpen
         /\ animationFrames' = animationFrames
         /\ transitionEndCbs' = transitionEndCbs
         /\ debounceId' = debounceId]_vars

\* The close of an open, stacked overlay that shows the backdrop was
\* prevented.
PreventedCloseOfStacked ==
  /\ Len(dispatched) = 1
  /\ dispatched[1].type = "beforeclose"
  /\ dispatched[1].prevented
  /\ open[dispatched[1].target]
  /\ IndexOf(overlayStack, dispatched[1].target) # 0
  /\ backdropIsOpen

\* C4: whenever coral-overlay:open is dispatched the overlay's open property
\* is true, and whenever coral-overlay:close is dispatched it is false.
EventsMatchOpenState ==
  \A i \in 1..Len(dispatched) :
    /\ dispatched[i].type = "open" => dispatched[i].open
    /\ dispatched[i].type = "close" => ~dispatched[i].open

\* C5: the open attribute is present exactly when the open property is true.
OpenAttributeReflectsProperty ==
  \A o \in instances : openAttr[o] <=> open[o]

\* C6: the backdrop is marked open exactly when an overlay of the stack has
\* its backdrop flag set.
BackdropOpenIffUsed ==
  backdropIsOpen <=> \E i \in 1..Len(overlayStack) : overlayStack[i].backdrop

\* The overlay that used the backdrop was closed while another overlay
\* stays stacked, and the backdrop is hidden.
BackdropHiddenAfterLastUser ==
  /\ ~backdropIsOpen
  /\ Len(overlayStack) = 1
  /\ \E o \in Overlays :
       /\ requestedBackdrop[o]
       /\ ~open[o]
       /\ IndexOf(overlayStack, o) = 0
       /\ Len(dispatched) = 1
       /\ dispatched[1].type = "beforeclose"
       /\ dispatched[1].target = o

\* A step in which the close of o completes (closeComplete runs with o
\* closed).
CloseCompletes(o) ==
  \/ /\ AnimationFrame
     /\ Head(animationFrames).instance = o
     /\ ~Head(animationFrames).open
     /\ ~overlayAnimationTime[o]
     /\ ~open[o]
  \/ /\ TransitionEnd(o)
     /\ Head(transitionEndCbs[o]).kind = "close"
     /\ ~open[o]

\* C7: returnFocusTo(element) switches returnFocus on and records the
\* element; when a close completes while focus is inside the overlay, focus
\* goes to the element of the most recent returnFocusTo call.
FocusReturnsToRequestedElement ==
  [][\A o \in Overlays :
       /\ \A element \in Elements :
            ReturnFocusTo(o, element) =>
              returnFocus'[o] = "on" /\ returnFocusToElement'[o] = element
       /\ (/\ CloseCompletes(o)
           /\ returnFocus[o] = "on"
           /\ returnFocusToElement[o] # "none"
           /\ Contains(parentNode, o, activeElement)) =>
            activeElement' = returnFocusToElement[o]]_vars

\* C8: when coral-overlay:close is dispatched on an overlay, no descendant
\* overlay has the open attribute and none is open.
ChildrenClosedOnClose ==
  \A i \in 1..Len(dispatched) :
    dispatched[i].type = "close" =>
      \A c \in Overlays :
        (c # dispatched[i].target /\ Contains(parentNode, dispatched[i].target, c))
          => ~openAttr[c] /\ ~open[c]

\* C9: a set made with silent = true dispatches none of the four overlay
\* events for its transition, and _silenced is false when set() returns.
SilentSetDispatchesNothing ==
  [][/\ \A i \in 1..Len(dispatched') : dispatched'[i].mode # "silentSet"
     /\ \A o \in Overlays, value \in {"true", "false"}, prevent \in BOOLEAN :
          SetOpenCall(o, value, TRUE, prevent) => ~silenced'[o]]_vars

\* C10: each global event listener and each global key listener of a
\* component is registered when the last life cycle callback was
\* connectedCallback and unregistered when it was disconnectedCallback.
GlobalListenersFollowLifecycle ==
  \A c \in Components :
    /\ lastCallback[c] = "connected" =>
         /\ globalEvents[c] => c \in eventsListeners
         /\ globalKeys[c] => c \in keysListeners
    /\ lastCallback[c] = "disconnected" =>
         /\ c \notin eventsListeners
         /\ c \notin keysListeners

\* The upper-case form of a lower-case letter or word end.
UpperCase ==
  [c \in {"o", "n", "f", "v", "h", "ullscreen", "orizontal", "ertical"} |->
     CASE c = "o" -> "O"
       [] c = "f" -> "F"
       [] c = "v" -> "V"
       [] c = "h" -> "H"
       [] c = "ullscreen" -> "ULLSCREEN"
       [] c = "orizontal" -> "ORIZONTAL"
       [] c = "ertical" -> "ERTICAL"
       [] OTHER -> "N"]

\* The string value is member, whatever the case of its letters.
IsSpelled(value, member) ==
  /\ value.type = "string"
  /\ Len(value.chars) = Len(member.chars)
  /\ \A i \in 1..Len(member.chars) :
       value.chars[i] \in {member.chars[i], UpperCase[member.chars[i]]}

\* The getter of an enumerated property.
GetEnumerated(property) ==
  CASE property = "trapFocus" -> GetTrapFocus(enumerated)
    [] property = "returnFocus" -> GetReturnFocus(enumerated)
    [] property = "scrollOnFocus" -> GetScrollOnFocus(enumerated)

\* C11: trapFocus, returnFocus and scrollOnFocus always hold a member of
\* their enumeration; after a set, the getter returns the lower-cased value
\* when that is a member, and otherwise the default (trapFocus 'off',
\* returnFocus 'off', scrollOnFocus 'on').
EnumeratedHoldMembers ==
  /\ \A property \in EnumeratedProperties : GetEnumerated(property) \in OnOff
  /\ enumerated.lastSet.property # "none" =>
       LET value == enumerated.lastSet.value
           got == GetEnumerated(enumerated.lastSet.property)
       IN IF IsSpelled(value, ON) THEN got = ON
          ELSE IF IsSpelled(value, OFF) THEN got = OFF
          ELSE got = IF enumerated.lastSet.property = "scrollOnFocus"
                     THEN ON ELSE OFF

\* trapFocus was set to 'OFF' and holds 'off', while returnFocus and
\* scrollOnFocus were set and hold 'on'.
UpperCaseOffAccepted ==
  /\ enumerated.lastSet = [property |-> "trapFocus",
                           value |-> Str(<<"O", "F", "F">>)]
  /\ enumerated["_trapFocus"] = OFF
  /\ enumerated["_returnFocus"] = ON
  /\ enumerated["_scrollOnFocus"] = ON

\* C12: an editor change made while livereload is on starts the timer of
\* coderun, and coderun is triggered once the timer is left to run; the
\* timer triggers one event for all the changes made since it last ran;
\* while livereload is off an editor change leaves the timer as it is and
\* makes the run button visible.
LiveReloadRunsCode ==
  /\ [][\A code \in Codes :
          EditorChange(code) =>
            IF Truthy(playground["_livereload"])
            THEN playground'["_timeout"] = CODERUN
            ELSE /\ playground'["_timeout"] = playground["_timeout"]
                 /\ playground'.runVisibility = "visible"]_vars
  /\ [][PlaygroundTimer =>
          /\ Len(playground'.events) = Len(playground.events) + 1
          /\ playground'["_timeout"] = "null"]_vars
  /\ (playground.lastOp = "changeLive")
       ~> \/ playground.lastOp # "changeLive"
          \/ \E i \in 1..Len(playground.events) : playground.events[i] = CODERUN

\* Two editor changes made in a row while livereload is on were followed by
\* one coderun.
BurstRanOnce ==
  /\ playground.lastOp = "changeLive"
  /\ playground.events = <<CODERUN>>
  /\ playground.covered = 2
  /\ playground["_timeout"] = "null"

\* Nothing is left to run: no timer, no animation frame callback.
PlaygroundQuiet ==
  /\ playground["_timeout"] \notin {CODERUN, SETTINGSCHANGE}
  /\ playground.frames = 0

\* C13: once everything started by livereload = true, or by the attachment
\* of a playground configured with livereload, has run, both coderun and
\* settingschange have been triggered.
LivereloadTriggersBoth ==
  (playground.lastOp \in {"livereloadOn", "attachLive"} /\ PlaygroundQuiet) =>
    \A event \in {CODERUN, SETTINGSCHANGE} :
      \E i \in 1..Len(playground.events) : playground.events[i] = event

\* The screen and the livereload of the configuration read back from the
\* shared query are those of the playground, and a query with no parameter
\* gives the configuration {}.
SharedSettingsReadBack ==
  /\ playground.read.screen = playground["_screen"]
  /\ Truthy(playground.read.livereload) <=> playground["_livereload"] = True
  /\ playground.query = <<"?">> => playground.read = EmptyConfig

\* C14 as stated: Playground.read(playground.share()) gives the editor code,
\* the current screen and a livereload that is truthy exactly when livereload
\* is on, for every state of the playground.
ShareRoundTripsAlways ==
  playground.lastOp = "share" =>
    /\ playground.read.code = playground.code
    /\ SharedSettingsReadBack

\* C14: Playground.read(playground.share()) gives the editor code when the
\* editor is not empty and no code (undefined) when it is empty, the current
\* screen, and a livereload that is truthy exactly when livereload is on; a
\* query with no parameter gives the configuration {}.
ShareRoundTrips ==
  playground.lastOp = "share" =>
    /\ playground.read.code =
         IF playground.code = Str(<<>>) THEN Undefined ELSE playground.code
    /\ SharedSettingsReadBack

\* A playground with livereload on, a screen and a code whose compressed
\* form ends in '=' was shared and read back.
SharedPaddedCode ==
  /\ playground.lastOp = "share"
  /\ playground["_livereload"] = True
  /\ playground["_screen"] = FULLSCREEN
  /\ playground.code = Str(<<"a", "b">>)
  /\ playground.query[Len(playground.query) - 1] = "="
  /\ playground.read.code = Str(<<"a", "b">>)

\* The screen a value stands for: the member of SCREEN_ENUM it spells, or
\* 'vertical'.
ScreenFor(value) ==
  IF \E screen \in SCREEN_ENUM : IsSpelled(value, screen)
  THEN CHOOSE screen \in SCREEN_ENUM : IsSpelled(value, screen)
  ELSE VERTICAL

\* C15: after a set of screen, by property or by attribute, screen is the
\* member of SCREEN_ENUM the value spells or 'vertical'; the screen attribute
\* equals screen; and of the three screen classes the element carries the one
\* of the current screen and no other.
ScreenIsOneOfThree ==
  /\ [][\A value \in {playground.input} \cup SCREEN_ENUM :
          (SetScreenProperty(value) \/ SetScreenAttribute(value)) =>
            playground'["_screen"] = ScreenFor(value)]_vars
  /\ [](playground.lastOp # "none" =>
          /\ playground["_screen"] \in SCREEN_ENUM
          /\ playground.screenAttr = playground["_screen"]
          /\ playground.classes \cap SCREEN_CLASSES
               = {ScreenClass(playground["_screen"])})

\* The screen was 'horizontal' from the configuration and the attribute was
\* then set to 'Fullscreen'.
ScreenChangedByAttribute ==
  /\ playground.lastOp = "screenAttribute"
  /\ playground.connected
  /\ playground.config.screen = HORIZONTAL
  /\ playground["_screen"] = FULLSCREEN
  /\ playground.screenAttr = FULLSCREEN

\* C16: after a set of size, the size getter returns 'M' and the size
\* attribute is 'M', whatever the value set ('L' and 'l' included).
SizeFallsBackToMedium ==
  button.lastOp = "size" =>
    /\ GetSize(button) = MEDIUM
    /\ button.sizeAttr = MEDIUM

\* C17: after a set of variant, the variant is a member of ButtonVariantEnum,
\* the variant attribute equals it, and of the base and variant classes the
\* element carries those of VARIANT_MAP for the variant (none for
\* '_custom'), never both _coral-Button and _coral-ActionButton.
VariantClassesFollowVariant ==
  button.lastOp = "variant" =>
    LET current == GetVariant(button)
        styling == {CLASSNAME, ACTION_CLASSNAME} \cup Range(ALL_VARIANT_CLASSES)
    IN /\ current \in ButtonVariant
       /\ button.variantAttr = current
       /\ button.classes \cap styling =
            IF current = Str(<<"_custom">>) THEN {} ELSE VARIANT_MAP[current.chars[1]]
       /\ ~({CLASSNAME, ACTION_CLASSNAME} \subseteq button.classes)

\* C18: once the life cycle callbacks of a decorated QuickActionsItem have
\* been delivered, its messenger is connected exactly when the item is
\* attached to the document.
MessengerFollowsAttachment ==
  quickItem.reactions = <<>> =>
    (quickItem.messengerConnected <=> quickItem.isConnected)

\* The item was moved within the document and both callbacks of the move
\* were delivered.
ItemMovedInDocument ==
  /\ quickItem.lastOp = "move"
  /\ quickItem.reactions = <<>>
  /\ quickItem.threw
  /\ quickItem.isConnected
  /\ quickItem.messengerConnected

\* The value _setContentZone rejects: truthy, and not an element or an
\* element of another tag than the expected one.
Rejected(value, options) ==
  /\ Truthy(value)
  /\ \/ value.type # "element"
     \/ /\ options.tagName # "undefined"
        /\ value \notin {Element("label1"), Element("label2")}

\* C19: _setContentZone throws for a truthy value that is not an element or
\* has another tag than the expected one, and then leaves the handle, the
\* children, the _contentZoned flags and the additional setter alone; a
\* falsy value takes the old zone element out of the DOM and becomes the
\* handle.
ContentZoneGuarded ==
  [][zone'.lastOp = "set" =>
       /\ Rejected(zone'.lastValue, zone.options) =>
            /\ zone'.threw
            /\ zone'.handle = zone.handle
            /\ zone'.children = zone.children
            /\ zone'.elsewhere = zone.elsewhere
            /\ zone'.contentZoned = zone.contentZoned
            /\ zone'.setterCalls = zone.setterCalls
       /\ ~Truthy(zone'.lastValue) =>
            /\ ~zone'.threw
            /\ zone'.handle = zone'.lastValue
            /\ zone.handle.type = "element" => ~HasParent(zone', zone.handle)]_vars

\* An element of the wrong tag was refused while the zone element was in
\* the component, next to another child.
WrongTagRefused ==
  /\ zone.lastOp = "set"
  /\ zone.lastValue = Element("span")
  /\ zone.threw
  /\ zone.options.tagName = ContentZoneTagName
  /\ HasParent(zone, zone.handle)
  /\ Len(zone.children) > 1

\* C20: a reflection never sets the property again: during
\* _reflectAttribute no setter runs, a reflection that wrote the attribute
\* leaves _reflectedAttribute false (and none leaves it true), and after it
\* the attribute is there exactly for true, or equals String(value) for a
\* value that is no boolean; an attribute changed by a script sets its
\* property exactly once.
ReflectionSetsNoProperty ==
  /\ \A i \in 1..Len(reflection.reflections) :
       LET r == reflection.reflections[i]
       IN /\ r.setters = 0
          /\ r.flag # "true"
          /\ r.after # r.before => r.flag = "false"
          /\ IF r.value.type = "boolean"
             THEN (r.after # Null) <=> (r.value = True)
             ELSE r.after = StringOf(r.value)
  /\ reflection.lastOp = "attribute" => reflection.setterCalls = 1

\* A script removed the value attribute; the setter ran once and its
\* reflection wrote the attribute anew.
AttributeRemovedOutside ==
  /\ reflection.lastOp = "attribute"
  /\ reflection.setterCalls = 1
  /\ Len(reflection.reflections) = 1
  /\ reflection.reflections[1].before = Null
  /\ reflection.reflections[1].after = Str(<<"null">>)

====
